---- MODULE Spec2Model ----
(***************************************************************************)
(* A model of the piping-line extractor (process_pdf_to_piping_lines.py    *)
(* and the HTTP handler of main.py).                                       *)
(*                                                                         *)
(* A Python str is a sequence of characters; a character is a one-element  *)
(* TLA+ string, except the three non-ASCII characters the model carries,   *)
(* which are written "<sz>" (U+00DF, sharp s), "<longs>" (U+017F, long s)  *)
(* and "<kelvin>" (U+212A, Kelvin sign).  Offsets are 0-based as in        *)
(* Python: the character at offset p of s is s[p + 1].                     *)
(* An optional value (None or a value v) is the sequence <<>> or <<v>>.    *)
(***************************************************************************)
EXTENDS Integers, Sequences, FiniteSets, TLC

VARIABLES
    text,                 \* the document's full text (a sequence of characters)
    layout_info,          \* the span list: records [start, end, bbox]
    npieces,              \* how many pieces the text was put together from
    pc,                   \* position in the pipeline
    pending,              \* the matches the extraction loop has yet to visit
    piping_lines,         \* extract_piping_line_numbers' dict
    pid_identifier,       \* extract_pid_identifier's result
    validated_lines_data, \* the dict after the validation filter
    result,               \* the assembled result (metadata + piping_lines)
    cand,                 \* the argument of the operation under check
    out,                  \* what the operation returned or raised
    entry,                \* the entry point running: "http" or "cli"
    project_id,           \* os.getenv("GOOGLE_CLOUD_PROJECT_ID")
    processor_id,         \* os.getenv("DOCUMENT_AI_PROCESSOR_ID")
    temp_file,            \* the handler's local temp_file
    temp_file_path,       \* the handler's local temp_file_path (None: unbound)
    files,                \* the paths that exist in the file system
    calls,                \* the external steps performed so far, in order
    exception             \* the exception the handler's try block raised

handler_vars == <<entry, project_id, processor_id, temp_file, temp_file_path,
                  files, calls, exception>>

vars == <<text, layout_info, npieces, pc, pending, piping_lines,
          pid_identifier, validated_lines_data, result, cand, out,
          entry, project_id, processor_id, temp_file, temp_file_path,
          files, calls, exception>>

---------------------------------------------------------------------------
(* Characters *)

Digits == {"0", "1", "2", "3", "4", "5", "6", "7", "8", "9"}

UpperSeq == <<"A", "B", "C", "D", "E", "F", "G", "H", "I", "J", "K", "L", "M",
              "N", "O", "P", "Q", "R", "S", "T", "U", "V", "W", "X", "Y", "Z">>

LowerSeq == <<"a", "b", "c", "d", "e", "f", "g", "h", "i", "j", "k", "l", "m",
              "n", "o", "p", "q", "r", "s", "t", "u", "v", "w", "x", "y", "z">>

UpperLetters == {UpperSeq[i] : i \in DOMAIN UpperSeq}

LowerLetters == {LowerSeq[i] : i \in DOMAIN LowerSeq}

None == <<>>

Some(v) == <<v>>

\* No entry point is running: the operation under check is called directly.
HandlerIdle ==
    /\ entry = "none"
    /\ project_id = None
    /\ processor_id = None
    /\ temp_file = None
    /\ temp_file_path = None
    /\ files = {}
    /\ calls = <<>>
    /\ exception = None

\* The characters of the model in code-point order: Python compares strings
\* by code point, so the order of this sequence is the order sorted() uses.
CharOrder == <<"\n", " ", "\"", "-", ".">>
             \o <<"0", "1", "2", "3", "4", "5", "6", "7", "8", "9">>
             \o UpperSeq \o <<"_">> \o LowerSeq
             \o <<"<sz>", "<longs>", "<kelvin>">>

Rank(c) == CHOOSE i \in DOMAIN CharOrder : CharOrder[i] = c

\* str.upper() of one character: a sequence, since U+00DF upper-cases to "SS".
UpperChar(c) ==
    IF c \in LowerLetters
    THEN <<UpperSeq[CHOOSE i \in DOMAIN LowerSeq : LowerSeq[i] = c]>>
    ELSE IF c = "<sz>" THEN <<"S", "S">>
    ELSE IF c = "<longs>" THEN <<"S">>
    ELSE <<c>>

\* s.upper(): the upper-cased characters, concatenated (by halves, which
\* keeps the evaluation shallow on a long text).
RECURSIVE StrUpper(_)
StrUpper(s) ==
    IF Len(s) = 0 THEN <<>>
    ELSE IF Len(s) = 1 THEN UpperChar(s[1])
    ELSE LET h == Len(s) \div 2
         IN  StrUpper(SubSeq(s, 1, h)) \o StrUpper(SubSeq(s, h + 1, Len(s)))

\* \w of a str pattern: letters (any script), digits and the underscore.
IsWord(c) == c \in Digits \cup UpperLetters \cup LowerLetters
                   \cup {"_", "<sz>", "<longs>", "<kelvin>"}

\* \s, and what str.strip() strips.
IsSpace(c) == c \in {" ", "\n"}

\* [A-Z] under re.IGNORECASE: the 52 ASCII letters and the non-ASCII letters
\* whose case folding is an ASCII letter.
IsLetterIC(c) == c \in UpperLetters \cup LowerLetters \cup {"<longs>", "<kelvin>"}

\* Membership of a character in a character class of a pattern compiled
\* with re.IGNORECASE.
InClass(cls, c) ==
    CASE cls = "d"      -> c \in Digits
      [] cls = "AZ"     -> IsLetterIC(c)
      [] cls = "AZ09"   -> IsLetterIC(c) \/ c \in Digits
      [] cls = "AZ09q"  -> IsLetterIC(c) \/ c \in Digits \/ c = "\""
      [] cls = "AZ09-"  -> IsLetterIC(c) \/ c \in Digits \/ c = "-"
      [] cls = "s"      -> IsSpace(c)
      [] cls = "dot"    -> c = "."
      [] cls = "AZcs"   -> c \in UpperLetters
      [] cls = "AZ09cs" -> c \in UpperLetters \/ c \in Digits

\* A literal character of a pattern compiled with re.IGNORECASE.
LitMatches(l, c) ==
    \/ c = l
    \/ l \in UpperLetters /\ UpperChar(c) = <<l>> /\ c # "<longs>"
    \/ l = "S" /\ c = "<longs>"
    \/ l = "K" /\ c = "<kelvin>"

---------------------------------------------------------------------------
(* The regular-expression engine: greedy quantifiers with backtracking.    *)
(* A pattern is a sequence of elements:                                    *)
(*   [t |-> "b"]                       \b                                  *)
(*   [t |-> "lit", c |-> ch]           one literal character               *)
(*   [t |-> "rep", cls, min, max]      a class repeated {min,max};         *)
(*                                      unb = TRUE for * and +             *)
(*   [t |-> "open"], [t |-> "close"]   the parentheses of group 1          *)
(*   [t |-> "eos"]                     $ (the end, or before a final \n)   *)
(* A match is <<end, group start, group end>>; no match is <<>>.           *)

Fail == <<>>

Min(a, b) == IF a < b THEN a ELSE b

\* \b at offset p of s.
AtBoundary(s, p) ==
    LET before == p >= 1 /\ IsWord(s[p])
        after  == p < Len(s) /\ IsWord(s[p + 1])
    IN  before # after

\* The length of the run of characters of class cls from offset p, at most cap.
RunLen(s, p, cls, cap) ==
    LET lim   == Min(Len(s), p + cap)
        stops == {i \in (p + 1)..lim : ~InClass(cls, s[i])}
    IN  IF stops = {} THEN lim - p
        ELSE (CHOOSE i \in stops : \A j \in stops : i <= j) - 1 - p

RECURSIVE MatchAt(_, _, _, _, _, _)
RECURSIVE TryRep(_, _, _, _, _, _, _)

\* Match elements k.. of pat at offset p of s.
MatchAt(pat, k, s, p, gs, ge) ==
    IF k > Len(pat) THEN <<p, gs, ge>>
    ELSE LET e == pat[k] IN
      CASE e.t = "b"     -> IF AtBoundary(s, p)
                            THEN MatchAt(pat, k + 1, s, p, gs, ge) ELSE Fail
        [] e.t = "lit"   -> IF p < Len(s) /\ LitMatches(e.c, s[p + 1])
                            THEN MatchAt(pat, k + 1, s, p + 1, gs, ge) ELSE Fail
        [] e.t = "eos"   -> IF p = Len(s) \/ (p = Len(s) - 1 /\ s[p + 1] = "\n")
                            THEN MatchAt(pat, k + 1, s, p, gs, ge) ELSE Fail
        [] e.t = "open"  -> MatchAt(pat, k + 1, s, p, p, ge)
        [] e.t = "close" -> MatchAt(pat, k + 1, s, p, gs, p)
        [] e.t = "rep"   ->
             TryRep(pat, k, s, p,
                    RunLen(s, p, e.cls, IF e.unb THEN Len(s) ELSE e.max),
                    gs, ge)

\* The greedy quantifier with backtracking: of the repetition counts
\* min..j after which the rest of the pattern matches, the largest.
TryRep(pat, k, s, p, j, gs, ge) ==
    LET ok == {n \in pat[k].min..j : MatchAt(pat, k + 1, s, p + n, gs, ge) # Fail}
    IN  IF ok = {} THEN Fail
        ELSE MatchAt(pat, k + 1, s,
                     p + (CHOOSE n \in ok : \A m \in ok : m <= n), gs, ge)

\* re.search from offset from: <<start, end, group start, group end>> of the
\* leftmost match, or Fail.
Search(pat, s, from) ==
    LET starts == {i \in from..Len(s) : MatchAt(pat, 1, s, i, 0, 0) # Fail}
    IN  IF starts = {} THEN Fail
        ELSE LET i == CHOOSE i \in starts : \A j \in starts : i <= j
             IN  <<i>> \o MatchAt(pat, 1, s, i, 0, 0)

Slice(s, a, b) == SubSeq(s, a + 1, b)

\* re.findall of a pattern without groups: the matched substrings, left to
\* right, each search resuming where the previous match ended.
RECURSIVE FindAllFrom(_, _, _)
FindAllFrom(pat, s, from) ==
    LET r == Search(pat, s, from)
    IN  IF r = Fail THEN <<>>
        ELSE <<Slice(s, r[1], r[2])>>
             \o FindAllFrom(pat, s, IF r[2] > r[1] THEN r[2] ELSE r[2] + 1)

FindAll(pat, s) == FindAllFrom(pat, s, 0)

Rep(cls, lo, hi) == [t |-> "rep", cls |-> cls, min |-> lo, max |-> hi, unb |-> FALSE]

Star(cls) == [t |-> "rep", cls |-> cls, min |-> 0, max |-> 0, unb |-> TRUE]

Plus(cls) == [t |-> "rep", cls |-> cls, min |-> 1, max |-> 0, unb |-> TRUE]

Opt(cls) == [t |-> "rep", cls |-> cls, min |-> 0, max |-> 1, unb |-> FALSE]

Lit(ch) == [t |-> "lit", c |-> ch]

WordB == [t |-> "b"]

Eos == [t |-> "eos"]

GroupOpen == [t |-> "open"]

GroupClose == [t |-> "close"]

\* re.search(pat, s) finds a match.
Found(pat, s) == Search(pat, s, 0) # Fail

\* re.match(pat, s) finds a match (anchored at offset 0).
Matches(pat, s) == MatchAt(pat, 1, s, 0, 0, 0) # Fail

---------------------------------------------------------------------------
(* Python str methods *)

\* s.split(sep) for a one-character separator: always at least one part.
Split(s, sep) ==
    LET at    == {i \in DOMAIN s : s[i] = sep}
        \* the position of the k-th separator; 0 and Len(s) + 1 bracket them
        nth(k) == IF k = 0 THEN 0
                  ELSE IF k > Cardinality(at) THEN Len(s) + 1
                  ELSE CHOOSE i \in at : Cardinality({j \in at : j < i}) = k - 1
    IN  [k \in 1..(Cardinality(at) + 1) |-> SubSeq(s, nth(k - 1) + 1, nth(k) - 1)]

\* sep.join(parts)
RECURSIVE Join(_, _)
Join(parts, sep) ==
    IF parts = <<>> THEN <<>>
    ELSE IF Len(parts) = 1 THEN parts[1]
    ELSE parts[1] \o <<sep>> \o Join(Tail(parts), sep)

\* s.strip(): from the first to the last character that is not whitespace.
Strip(s) ==
    LET keep == {i \in DOMAIN s : ~IsSpace(s[i])}
    IN  IF keep = {} THEN <<>>
        ELSE SubSeq(s, CHOOSE i \in keep : \A j \in keep : i <= j,
                       CHOOSE i \in keep : \A j \in keep : j <= i)

\* Prefix, keeping one character too many.
PrefixOneMore(s, n) == SubSeq(s, 1, Min(n + 1, Len(s)))

\* s[:n]
Prefix(s, n) == SubSeq(s, 1, Min(n, Len(s)))

\* sub occurs in s at offset p.
OccursAt(s, sub, p) == p + Len(sub) <= Len(s) /\ Slice(s, p, p + Len(sub)) = sub

\* s.find(sub): the lowest offset at which sub occurs, or -1.
Find(s, sub) ==
    IF \E p \in 0..Len(s) : OccursAt(s, sub, p)
    THEN CHOOSE p \in 0..Len(s) :
            OccursAt(s, sub, p) /\ \A q \in 0..(p - 1) : ~OccursAt(s, sub, q)
    ELSE -1

\* a < b for two str (code-point order, a proper prefix first).
RECURSIVE StrLess(_, _)
StrLess(a, b) ==
    IF b = <<>> THEN FALSE
    ELSE IF a = <<>> THEN TRUE
    ELSE IF Head(a) = Head(b) THEN StrLess(Tail(a), Tail(b))
    ELSE Rank(Head(a)) < Rank(Head(b))

\* Sorted, descending.
RECURSIVE SortedDescending(_)
SortedDescending(S) ==
    IF S = {} THEN <<>>
    ELSE LET m == CHOOSE x \in S : \A y \in S \ {x} : StrLess(y, x)
         IN  <<m>> \o SortedDescending(S \ {m})

\* sorted(keys): the keys in ascending order.
RECURSIVE Sorted(_)
Sorted(S) ==
    IF S = {} THEN <<>>
    ELSE LET m == CHOOSE x \in S : \A y \in S \ {x} : StrLess(x, y)
         IN  <<m>> \o Sorted(S \ {m})


---------------------------------------------------------------------------
(* PipingLineExtractor *)

Dash == Lit("-")

\* r'\b\d{1,2}"-[A-Z]{1,3}-[A-Z0-9]{1,3}-[A-Z0-9]{1,4}\b'
pattern1 == <<WordB, Rep("d", 1, 2), Lit("\""), Dash, Rep("AZ", 1, 3), Dash,
              Rep("AZ09", 1, 3), Dash, Rep("AZ09", 1, 4), WordB>>

\* r"\b\d{1,2}-[A-Z]{1,3}-[A-Z0-9]{1,3}-[A-Z0-9]{1,4}\b"
pattern2 == <<WordB, Rep("d", 1, 2), Dash, Rep("AZ", 1, 3), Dash,
              Rep("AZ09", 1, 3), Dash, Rep("AZ09", 1, 4), WordB>>

\* pattern3 without its fourth component.
pattern3_three_components ==
    <<WordB, Rep("AZ09q", 1, 4), Dash, Rep("AZ", 1, 3), Dash,
      Rep("AZ09", 1, 3), WordB>>

\* r'\b[A-Z0-9"]{1,4}-[A-Z]{1,3}-[A-Z0-9]{1,3}-[A-Z0-9]{1,4}\b'
pattern3 == <<WordB, Rep("AZ09q", 1, 4), Dash, Rep("AZ", 1, 3), Dash,
              Rep("AZ09", 1, 3), Dash, Rep("AZ09", 1, 4), WordB>>

patterns == <<pattern1, pattern2, pattern3>>

\* The overlap test of find_coordinates_for_text.
SpanOverlaps(layout, start_pos, end_pos) ==
    \/ layout.start <= start_pos /\ start_pos < layout.end
    \/ layout.start < end_pos /\ end_pos <= layout.end
    \/ start_pos <= layout.start /\ layout.start < end_pos

\* The for loop of find_coordinates_for_text, from span i on.
RECURSIVE FirstBox(_, _, _, _)
FirstBox(layout, i, start_pos, end_pos) ==
    IF i > Len(layout) THEN None
    ELSE IF SpanOverlaps(layout[i], start_pos, end_pos) /\ layout[i].bbox # None
    THEN layout[i].bbox
    ELSE FirstBox(layout, i + 1, start_pos, end_pos)

find_coordinates_for_text(target_text, t, layout) ==
    LET text_upper   == StrUpper(t)
        target_upper == StrUpper(target_text)
        start_pos    == Find(text_upper, target_upper)
        end_pos      == start_pos + Len(target_text)
    IN  IF start_pos = -1 THEN None
        ELSE FirstBox(layout, 1, start_pos, end_pos)

\* normalize_piping_line, looking for a digit instead of matching digits only.
normalize_any_digit(line) ==
    LET components == Split(line, "-")
    IN  IF Len(components) >= 1 /\ Found(<<Rep("d", 1, 1)>>, components[1])
        THEN Join([components EXCEPT ![1] = @ \o <<"\"">>], "-")
        ELSE line

normalize_piping_line(line) ==
    LET components == Split(line, "-")
    IN  IF Len(components) >= 1 /\ Matches(<<Plus("d"), Eos>>, components[1])
        THEN Join([components EXCEPT ![1] = @ \o <<"\"">>], "-")
        ELSE line

\* validate_piping_line without the check of the first component.
validate_without_size_check(line) ==
    LET components == Split(line, "-")
    IN  IF Len(components) # 4 THEN FALSE
        ELSE IF ~Found(<<Rep("AZcs", 1, 1)>>, line) THEN FALSE
        ELSE IF ~Found(<<Rep("d", 1, 1)>>, line) THEN FALSE
        ELSE IF Len(line) > 20 \/ Len(line) < 7 THEN FALSE
        ELSE IF ~Matches(<<Plus("AZ09cs"), Eos>>, components[4]) THEN FALSE
        ELSE TRUE

validate_piping_line(line) ==
    LET components == Split(line, "-")
    IN  IF Len(components) # 4 THEN FALSE
        ELSE IF ~Found(<<Rep("AZcs", 1, 1)>>, line) THEN FALSE
        ELSE IF ~Found(<<Rep("d", 1, 1)>>, line) THEN FALSE
        ELSE IF Len(line) > 20 \/ Len(line) < 7 THEN FALSE
        ELSE IF ~Found(<<Rep("d", 1, 1)>>, components[1]) THEN FALSE
        ELSE IF ~Matches(<<Plus("AZ09cs"), Eos>>, components[4]) THEN FALSE
        ELSE TRUE

\* text.split("\n")
Lines(t) == Split(t, "\n")

\* The matches the loops of extract_piping_line_numbers visit, in the order
\* they visit them: by line, then by pattern, then left to right.
RECURSIVE PatternMatches(_, _, _)
PatternMatches(line, line_num, k) ==
    IF k > Len(patterns) THEN <<>>
    ELSE LET found == FindAll(patterns[k], line)
         IN  [i \in 1..Len(found) |->
                 [line_num |-> line_num, line |-> line, pattern |-> k,
                  match |-> found[i]]]
             \o PatternMatches(line, line_num, k + 1)

RECURSIVE LineMatches(_, _)
LineMatches(lines, n) ==
    IF n > Len(lines) THEN <<>>
    ELSE PatternMatches(lines[n], n, 1) \o LineMatches(lines, n + 1)

AllMatches(t) == LineMatches(Lines(t), 1)

EmptyDict == [k \in {} |-> <<>>]

\* ProcessMatch, a later duplicate overwriting the tuple recorded.
ProcessMatchOverwrite(pl, m, t, layout) ==
    LET cleaned_match == StrUpper(Strip(m.match))
    IN  IF (\E i \in DOMAIN cleaned_match : cleaned_match[i] = "-")
           /\ Found(<<Rep("AZcs", 1, 1)>>, cleaned_match)
        THEN LET normalized_match == normalize_piping_line(cleaned_match)
                 context == Prefix(Strip(m.line), 100)
                 coords  == find_coordinates_for_text(m.match, t, layout)
             IN  [k \in DOMAIN pl \cup {normalized_match} |->
                     IF k = normalized_match
                     THEN [line_num |-> m.line_num, context |-> context,
                           coords |-> coords]
                     ELSE pl[k]]
        ELSE pl

\* ProcessMatch, recording a match only when it has coordinates.
ProcessMatchNeedsCoords(pl, m, t, layout) ==
    LET cleaned_match == StrUpper(Strip(m.match))
    IN  IF (\E i \in DOMAIN cleaned_match : cleaned_match[i] = "-")
           /\ Found(<<Rep("AZcs", 1, 1)>>, cleaned_match)
        THEN LET normalized_match == normalize_piping_line(cleaned_match)
                 context == Prefix(Strip(m.line), 100)
                 coords  == find_coordinates_for_text(m.match, t, layout)
             IN  IF coords # None /\ normalized_match \notin DOMAIN pl
                 THEN [k \in DOMAIN pl \cup {normalized_match} |->
                          IF k = normalized_match
                          THEN [line_num |-> m.line_num, context |-> context,
                                coords |-> coords]
                          ELSE pl[k]]
                 ELSE pl
        ELSE pl

\* The body of the innermost loop of extract_piping_line_numbers for one
\* match m: the dict after it.
ProcessMatch(pl, m, t, layout) ==
    LET cleaned_match == StrUpper(Strip(m.match))
    IN  IF (\E i \in DOMAIN cleaned_match : cleaned_match[i] = "-")
           /\ Found(<<Rep("AZcs", 1, 1)>>, cleaned_match)
        THEN LET normalized_match == normalize_piping_line(cleaned_match)
                 context == Prefix(Strip(m.line), 100)
                 coords  == find_coordinates_for_text(m.match, t, layout)
             IN  IF normalized_match \notin DOMAIN pl
                 THEN [k \in DOMAIN pl \cup {normalized_match} |->
                          IF k = normalized_match
                          THEN [line_num |-> m.line_num, context |-> context,
                                coords |-> coords]
                          ELSE pl[k]]
                 ELSE pl
        ELSE pl

\* extract_piping_line_numbers as a whole: the loop run from match i on.
RECURSIVE ExtractFrom(_, _, _, _, _)
ExtractFrom(pl, ms, i, t, layout) ==
    IF i > Len(ms) THEN pl
    ELSE ExtractFrom(ProcessMatch(pl, ms[i], t, layout), ms, i + 1, t, layout)

extract_piping_line_numbers(t, layout) ==
    ExtractFrom(EmptyDict, AllMatches(t), 1, t, layout)

\* r"DWG\.\s*NO\.?\s*([A-Z0-9\-]+PID[A-Z0-9\-]*)"
pid_pattern == <<Lit("D"), Lit("W"), Lit("G"), Lit("."), Star("s"),
                 Lit("N"), Lit("O"), Opt("dot"), Star("s"), GroupOpen,
                 Plus("AZ09-"), Lit("P"), Lit("I"), Lit("D"), Star("AZ09-"),
                 GroupClose>>

\* r"DWG\s*NO\.?\s*([A-Z0-9\-]+PID[A-Z0-9\-]*)"
pid_pattern2 == <<Lit("D"), Lit("W"), Lit("G"), Star("s"),
                  Lit("N"), Lit("O"), Opt("dot"), Star("s"), GroupOpen,
                  Plus("AZ09-"), Lit("P"), Lit("I"), Lit("D"), Star("AZ09-"),
                  GroupClose>>

\* extract_pid_identifier without its alternative pattern.
extract_pid_first_pattern_only(t) ==
    LET match == Search(pid_pattern, t, 0)
    IN  IF match # Fail THEN Some(Strip(Slice(t, match[3], match[4])))
        ELSE None

extract_pid_identifier(t) ==
    LET match  == Search(pid_pattern, t, 0)
        match2 == Search(pid_pattern2, t, 0)
    IN  IF match # Fail THEN Some(Strip(Slice(t, match[3], match[4])))
        ELSE IF match2 # Fail THEN Some(Strip(Slice(t, match2[3], match2[4])))
        ELSE None

\* The validation filter of both pipelines.
ValidatedLines(pl) ==
    LET keep == {k \in DOMAIN pl : validate_piping_line(k)}
    IN  [k \in keep |-> pl[k]]

\* The result both pipelines assemble: one entry per key, keys sorted.
BuildResult(data, pid, script) ==
    LET keys == Sorted(DOMAIN data)
    IN  [total_found |-> Cardinality(DOMAIN data),
         extraction_script |-> script,
         pid_identifier |-> pid,
         piping_lines |->
            [i \in 1..Len(keys) |->
                [piping_line_number |-> keys[i],
                 text_line_number |-> data[keys[i]].line_num,
                 context |-> data[keys[i]].context,
                 coordinates |-> IF data[keys[i]].coords # None
                                 THEN data[keys[i]].coords ELSE None]]]

---------------------------------------------------------------------------
(* The document: a text put together from pieces, and a span list *)

MaxPieces == 3

MaxSpans == 1

FillerLen == 96

PlainId == <<"6", "-", "P", "-", "1", "-", "C">>

InchId == <<"6", "\"", "-", "p", "-", "1", "-", "C">>

\* PlainId inside a longer token.
LongId == <<"X", "6", "-", "P", "-", "1", "-", "C">>

ThreeComp == <<"6", "\"", "-", "P", "-", "1">>

NoDigitId == <<"X", "-", "P", "-", "1", "-", "C">>

\* A run of letters that makes its line longer than the context kept.
Filler == [i \in 1..FillerLen |-> "x"] \o <<" ">>

Pieces == {PlainId, InchId, LongId, ThreeComp, NoDigitId, <<"\n">>, <<" ">>}

BoxA == [x |-> 1, y |-> 2, width |-> 3, height |-> 4]

BoxB == [x |-> 5, y |-> 6, width |-> 7, height |-> 8]

SpanChoices == {[start |-> 0, end |-> 8, bbox |-> Some(BoxA)],
                [start |-> 8, end |-> 17, bbox |-> Some(BoxB)],
                [start |-> 0, end |-> 9, bbox |-> None]}

---------------------------------------------------------------------------
(* The pipeline of process_pdf_to_piping_lines and of the HTTP handler *)

Init ==
    /\ HandlerIdle
    /\ text = <<>>
    /\ layout_info = <<>>
    /\ npieces = 0
    /\ pc = "text"
    /\ pending = <<>>
    /\ piping_lines = EmptyDict
    /\ pid_identifier = None
    /\ validated_lines_data = EmptyDict
    /\ result = None
    /\ cand = None
    /\ out = None

\* The text starts with a long run of letters.
AppendFiller ==
    /\ pc = "text"
    /\ npieces = 0
    /\ text' = Filler
    /\ npieces' = 1
    /\ UNCHANGED <<layout_info, pc, pending, piping_lines, pid_identifier,
                   validated_lines_data, result, cand, out>>
    /\ UNCHANGED handler_vars

\* The document service returns one more piece of text.
AppendPiece(p) ==
    /\ pc = "text"
    /\ npieces < MaxPieces
    /\ text' = text \o p
    /\ npieces' = npieces + 1
    /\ UNCHANGED <<layout_info, pc, pending, piping_lines, pid_identifier,
                   validated_lines_data, result, cand, out>>
    /\ UNCHANGED handler_vars

\* The document service returns one more span.
AddSpan(sp) ==
    /\ pc \in {"text", "layout"}
    /\ Len(layout_info) < MaxSpans
    /\ layout_info' = Append(layout_info, sp)
    /\ pc' = "layout"
    /\ UNCHANGED <<text, npieces, pending, piping_lines, pid_identifier,
                   validated_lines_data, result, cand, out>>
    /\ UNCHANGED handler_vars

\* pid_identifier = extractor.extract_pid_identifier(text), and the call of
\* extract_piping_line_numbers up to its loops.
BeginExtraction ==
    /\ pc \in {"text", "layout"}
    /\ pid_identifier' = extract_pid_identifier(text)
    /\ piping_lines' = EmptyDict
    /\ pending' = AllMatches(text)
    /\ pc' = "extract"
    /\ UNCHANGED <<text, layout_info, npieces, validated_lines_data, result,
                   cand, out>>
    /\ UNCHANGED handler_vars

\* One pass of the innermost loop of extract_piping_line_numbers.
ExtractStep ==
    /\ pc = "extract"
    /\ pending # <<>>
    /\ piping_lines' = ProcessMatch(piping_lines, Head(pending), text, layout_info)
    /\ pending' = Tail(pending)
    /\ UNCHANGED <<text, layout_info, npieces, pc, pid_identifier,
                   validated_lines_data, result, cand, out>>
    /\ UNCHANGED handler_vars

\* The loops are over: extract_piping_line_numbers returns and the caller
\* filters its dict with validate_piping_line.
ValidateFilter ==
    /\ pc = "extract"
    /\ pending = <<>>
    /\ validated_lines_data' = ValidatedLines(piping_lines)
    /\ pc' = "assemble"
    /\ UNCHANGED <<text, layout_info, npieces, pending, piping_lines,
                   pid_identifier, result, cand, out>>
    /\ UNCHANGED handler_vars

\* The HTTP handler builds the response.
AssembleHttp ==
    /\ pc = "assemble"
    /\ result' = Some(BuildResult(validated_lines_data, pid_identifier,
                                  "fastapi_server/main.py"))
    /\ pc' = "done"
    /\ UNCHANGED <<text, layout_info, npieces, pending, piping_lines,
                   pid_identifier, validated_lines_data, cand, out>>
    /\ UNCHANGED handler_vars

\* The command-line pipeline builds the JSON document it saves.
save_results_as_json ==
    /\ pc = "assemble"
    /\ result' = Some(BuildResult(validated_lines_data, pid_identifier,
                                  "process_pdf_to_piping_lines.py"))
    /\ pc' = "done"
    /\ UNCHANGED <<text, layout_info, npieces, pending, piping_lines,
                   pid_identifier, validated_lines_data, cand, out>>
    /\ UNCHANGED handler_vars

Next ==
    \/ AppendFiller
    \/ \E p \in Pieces : AppendPiece(p)
    \/ \E sp \in SpanChoices : AddSpan(sp)
    \/ BeginExtraction
    \/ ExtractStep
    \/ ValidateFilter
    \/ AssembleHttp
    \/ save_results_as_json

Spec == Init /\ [][Next]_vars

---------------------------------------------------------------------------
(* Vocabulary of the claims, stated without the operators they are about *)

IsLetter(c) == c \in UpperLetters \cup LowerLetters

IsAlnum(c) == IsLetter(c) \/ c \in Digits

DashesOf(id) == {i \in DOMAIN id : id[i] = "-"}

\* The offsets (as indices) of the dashes that end the first component and
\* start the last one.
FirstDash(id) == CHOOSE i \in DashesOf(id) : \A j \in DashesOf(id) : i <= j

LastDash(id) == CHOOSE i \in DashesOf(id) : \A j \in DashesOf(id) : j <= i

\* The five conditions of the validation rule.
RuleHolds(id) ==
    /\ Cardinality(DashesOf(id)) = 3
    /\ \E i \in DOMAIN id : IsLetter(id[i])
    /\ \E i \in DOMAIN id : id[i] \in Digits
    /\ Len(id) >= 7 /\ Len(id) <= 20
    /\ \E i \in 1..(FirstDash(id) - 1) : id[i] \in Digits
    /\ LastDash(id) < Len(id)
    /\ \A i \in (LastDash(id) + 1)..Len(id) : IsAlnum(id[i])

\* a sorts strictly before b: at the first index where they differ a has the
\* smaller code point, or a is a proper prefix of b.
LexLess(a, b) ==
    \E i \in 1..(Min(Len(a), Len(b)) + 1) :
        /\ \A j \in 1..(i - 1) : a[j] = b[j]
        /\ \/ i > Len(a) /\ i <= Len(b)
           \/ i <= Len(a) /\ i <= Len(b) /\ Rank(a[i]) < Rank(b[i])

\* tr is line with the whitespace at both ends removed.
IsTrimOf(tr, line) ==
    \E a \in 1..(Len(line) + 1) : \E b \in {a + Len(tr) - 1} :
        /\ b <= Len(line)
        /\ \A i \in 1..(a - 1) : IsSpace(line[i])
        /\ \A i \in (b + 1)..Len(line) : IsSpace(line[i])
        /\ tr = SubSeq(line, a, b)
        /\ tr # <<>> => ~IsSpace(tr[1]) /\ ~IsSpace(tr[Len(tr)])

\* The identifier a match stands for.
KeyOf(m) == normalize_piping_line(StrUpper(m.match))

Records == IF result = None THEN <<>> ELSE result[1].piping_lines

RecordIds == {Records[i].piping_line_number : i \in DOMAIN Records}

LoopOver == pc = "extract" /\ pending = <<>>

---------------------------------------------------------------------------
(* C1 *)

\* C1: every identifier of the final result, of the HTTP handler and of the
\* command-line pipeline alike, satisfies the validation rule: exactly 4
\* dash-separated components, a letter and a digit, a length of 7 to 20, a
\* digit in the first component, an alphanumeric fourth component.
C1_ResultSatisfiesRule ==
    pc = "done" =>
        \A i \in DOMAIN Records : RuleHolds(Records[i].piping_line_number)

\* A finished run whose result holds an identifier while the filter has
\* dropped another key of the extraction dict.
C1_Witness ==
    /\ pc = "done"
    /\ Records # <<>>
    /\ \E k \in DOMAIN piping_lines : k \notin RecordIds

---------------------------------------------------------------------------
(* C2 *)

\* What one pass of the loop leaves alone: every tuple already recorded.
Retained ==
    pc = "extract" /\ pc' = "extract" =>
        \A k \in DOMAIN piping_lines :
            k \in DOMAIN piping_lines' /\ piping_lines'[k] = piping_lines[k]

\* When the loop is over, every identifier some match yields is recorded,
\* with the smallest line number on which a match yields it.
FirstLineRecorded ==
    LoopOver =>
        LET ms == AllMatches(text)
        IN  /\ DOMAIN piping_lines = {KeyOf(ms[i]) : i \in DOMAIN ms}
            /\ \A k \in DOMAIN piping_lines :
                 /\ \E i \in DOMAIN ms :
                       KeyOf(ms[i]) = k /\ ms[i].line_num = piping_lines[k].line_num
                 /\ \A i \in DOMAIN ms :
                       KeyOf(ms[i]) = k => piping_lines[k].line_num <= ms[i].line_num

\* C2: once an identifier is recorded, no later match of the document changes
\* its (line number, context, coordinates); the line number recorded is the
\* smallest on which a pattern yields the identifier; and a duplicate match
\* never keeps a different identifier from being recorded.
C2_FirstOccurrenceWins == [][Retained /\ FirstLineRecorded]_vars

\* The loop is over and it met the same identifier on two lines whose
\* contexts differ.
C2_Witness ==
    /\ LoopOver
    /\ \E i, j \in DOMAIN AllMatches(text) :
          LET ms == AllMatches(text)
          IN  /\ KeyOf(ms[i]) = KeyOf(ms[j])
              /\ ms[i].line_num < ms[j].line_num
              /\ Strip(ms[i].line) # Strip(ms[j].line)
              /\ piping_lines[KeyOf(ms[i])].line_num = ms[i].line_num

---------------------------------------------------------------------------
(* C3 *)

\* C3: the result holds exactly one record per validated identifier, in
\* strictly ascending lexicographic order of piping_line_number, and
\* total_found is the number of records; with no validated identifier the
\* list is empty and total_found is 0.
C3_OneSortedRecordPerIdentifier ==
    pc = "done" =>
        /\ RecordIds = DOMAIN validated_lines_data
        /\ Len(Records) = Cardinality(DOMAIN validated_lines_data)
        /\ \A i \in 1..(Len(Records) - 1) :
              LexLess(Records[i].piping_line_number,
                      Records[i + 1].piping_line_number)
        /\ result[1].total_found = Len(Records)
        /\ DOMAIN validated_lines_data = {} =>
              Records = <<>> /\ result[1].total_found = 0

\* A result of two records whose order is not the order of their lines.
C3_Witness ==
    /\ pc = "done"
    /\ Len(Records) >= 2
    /\ Records[1].text_line_number > Records[2].text_line_number

---------------------------------------------------------------------------
(* C4 *)

\* C4: for every record of the extraction dict, the line number L is a
\* 1-based index of a line of the text, line L holds a match of a pattern
\* whose upper-cased, normalized form is the record's identifier, and the
\* context is line L trimmed and cut to its first 100 characters.
C4_RecordDescribesItsLine ==
    \A k \in DOMAIN piping_lines :
        LET L == piping_lines[k].line_num
            context == piping_lines[k].context
            lines == Lines(text)
        IN  /\ L >= 1 /\ L <= Len(lines)
            /\ \E n \in DOMAIN patterns :
                  LET found == FindAll(patterns[n], lines[L])
                  IN  \E i \in DOMAIN found :
                          normalize_piping_line(StrUpper(found[i])) = k
            /\ Len(context) <= 100
            /\ LET tr == Strip(lines[L])
               IN  /\ IsTrimOf(tr, lines[L])
                   /\ Len(context) = Min(100, Len(tr))
                   /\ \A i \in DOMAIN context : context[i] = tr[i]

\* A record of a line longer than 100 characters, whose context was cut.
C4_Witness ==
    \E k \in DOMAIN piping_lines :
        /\ Len(Strip(Lines(text)[piping_lines[k].line_num])) > 100
        /\ Len(piping_lines[k].context) = 100

---------------------------------------------------------------------------
(* C7 *)

\* The candidate a line holds when it holds nothing else.
Alone(i) == StrUpper(Strip(Lines(text)[i]))

\* The lines that hold a candidate of 3 dash-separated components alone.
ThreeComponentLines ==
    {i \in DOMAIN Lines(text) :
        /\ Cardinality(DashesOf(Alone(i))) = 2
        /\ \A j \in DOMAIN Alone(i) : ~IsSpace(Alone(i)[j])}

\* C7 as stated: a candidate of 3 components alone on a line is a key of the
\* dict extract_piping_line_numbers returns, and is absent from the result.
C7_AsStated ==
    pc = "done" =>
        \A i \in ThreeComponentLines :
            /\ Alone(i) \in DOMAIN piping_lines
            /\ Alone(i) \notin RecordIds

\* C7, amended: no pattern matches a candidate of 3 components, so it is
\* never a key of the extraction dict (every key has exactly 4 components);
\* validate_piping_line rejects it, and it is absent from the result.
C7_ThreeComponentsNeverExtracted ==
    /\ \A k \in DOMAIN piping_lines : Cardinality(DashesOf(k)) = 3
    /\ \A i \in ThreeComponentLines :
          /\ Alone(i) \notin DOMAIN piping_lines
          /\ ~validate_piping_line(Alone(i))
          /\ Alone(i) \notin RecordIds

\* A finished run over a text with a 3-component candidate alone on a line
\* and a 4-component identifier on another.
C7_Witness ==
    /\ pc = "done"
    /\ \E i \in ThreeComponentLines : Lines(text)[i] = ThreeComp
    /\ Records # <<>>

---------------------------------------------------------------------------
(* C9 *)

\* A result without its coordinates.
WithoutCoordinates(recs) ==
    [i \in DOMAIN recs |->
        [piping_line_number |-> recs[i].piping_line_number,
         text_line_number |-> recs[i].text_line_number,
         context |-> recs[i].context]]

\* C9: the span list decides nothing but the coordinates: the records of a
\* text are, coordinates aside, those the same text yields with the empty
\* span list, and with the empty span list every record's coordinates are
\* null.
C9_SpansDecideOnlyCoordinates ==
    pc = "done" =>
        /\ WithoutCoordinates(Records)
             = WithoutCoordinates(
                 BuildResult(ValidatedLines(extract_piping_line_numbers(text, <<>>)),
                             pid_identifier, "").piping_lines)
        /\ layout_info = <<>> =>
              \A i \in DOMAIN Records : Records[i].coordinates = None

\* A finished run with a span list in which one record has coordinates and
\* another has none.
C9_Witness ==
    /\ pc = "done"
    /\ layout_info # <<>>
    /\ \E i, j \in DOMAIN Records :
          Records[i].coordinates # None /\ Records[j].coordinates = None

---------------------------------------------------------------------------
(* normalize_piping_line as a function of its argument *)

MaxStrLen == 3

NormAlphabet == {"6", "\"", "-", "P", "\n"}

NormStrings == UNION {[1..n -> NormAlphabet] : n \in 0..MaxStrLen}

InitNorm ==
    /\ HandlerIdle
    /\ cand \in NormStrings
    /\ out = <<>>
    /\ pc = "normalize"
    /\ text = <<>>
    /\ layout_info = <<>>
    /\ npieces = 0
    /\ pending = <<>>
    /\ piping_lines = EmptyDict
    /\ pid_identifier = None
    /\ validated_lines_data = EmptyDict
    /\ result = None

\* normalize_piping_line(cand)
NormalizeOnce ==
    /\ pc = "normalize"
    /\ out = <<>>
    /\ out' = <<normalize_piping_line(cand)>>
    /\ UNCHANGED <<text, layout_info, npieces, pc, pending, piping_lines,
                   pid_identifier, validated_lines_data, result, cand>>
    /\ UNCHANGED handler_vars

\* normalize_piping_line of the value it returned
NormalizeAgain ==
    /\ pc = "normalize"
    /\ Len(out) = 1
    /\ out' = Append(out, normalize_piping_line(out[1]))
    /\ UNCHANGED <<text, layout_info, npieces, pc, pending, piping_lines,
                   pid_identifier, validated_lines_data, result, cand>>
    /\ UNCHANGED handler_vars

NextNorm == NormalizeOnce \/ NormalizeAgain

SpecNorm == InitNorm /\ [][NextNorm]_vars

\* The first dash-separated component of x, and what follows it.
FirstComponent(x) ==
    IF DashesOf(x) = {} THEN x ELSE SubSeq(x, 1, FirstDash(x) - 1)

AfterFirstComponent(x) ==
    IF DashesOf(x) = {} THEN <<>> ELSE SubSeq(x, FirstDash(x), Len(x))

PurelyNumeric(c) == c # <<>> /\ \A i \in DOMAIN c : c[i] \in Digits

HasInchMark(c) == \E i \in DOMAIN c : c[i] = "\""

\* C5: normalizing twice gives what normalizing once gives; a string whose
\* first component carries an inch mark comes back unchanged; a string whose
\* first component is purely numeric gets exactly one inch mark appended to
\* that component, the rest unchanged.
C5_NormalizeIdempotent ==
    /\ Len(out) >= 1 =>
          /\ HasInchMark(FirstComponent(cand)) => out[1] = cand
          /\ PurelyNumeric(FirstComponent(cand)) =>
                out[1] = FirstComponent(cand) \o <<"\"">> \o AfterFirstComponent(cand)
    /\ Len(out) = 2 => out[2] = out[1]

\* Normalized twice: a string of several components whose first is purely
\* numeric, so that the first call appended the inch mark.
C5_Witness ==
    /\ Len(out) = 2
    /\ PurelyNumeric(FirstComponent(cand))
    /\ DashesOf(cand) # {}
    /\ out[1] # cand

---------------------------------------------------------------------------
(* validate_piping_line as a function of its argument *)

MaxComponents == 5

LongComponent == <<"P", "P", "P", "P", "P", "P", "P">>

ComponentChoices == {<<"6">>, <<"P">>, <<"6", "\"">>, <<>>, <<"C", "\n">>,
                     LongComponent}

InitValidate ==
    /\ HandlerIdle
    /\ cand = <<>>
    /\ out = <<>>
    /\ pc = "candidate"
    /\ npieces = 0
    /\ text = <<>>
    /\ layout_info = <<>>
    /\ pending = <<>>
    /\ piping_lines = EmptyDict
    /\ pid_identifier = None
    /\ validated_lines_data = EmptyDict
    /\ result = None

\* The candidate gets one more dash-separated component.
AppendComponent(c) ==
    /\ pc = "candidate"
    /\ npieces < MaxComponents
    /\ cand' = IF npieces = 0 THEN c ELSE cand \o <<"-">> \o c
    /\ npieces' = npieces + 1
    /\ UNCHANGED <<text, layout_info, pc, pending, piping_lines,
                   pid_identifier, validated_lines_data, result, out>>
    /\ UNCHANGED handler_vars

\* validate_piping_line(cand)
ValidateCandidate ==
    /\ pc = "candidate"
    /\ out' = <<validate_piping_line(cand)>>
    /\ pc' = "validated"
    /\ UNCHANGED <<text, layout_info, npieces, pending, piping_lines,
                   pid_identifier, validated_lines_data, result, cand>>
    /\ UNCHANGED handler_vars

NextValidate == (\E c \in ComponentChoices : AppendComponent(c)) \/ ValidateCandidate

SpecValidate == InitValidate /\ [][NextValidate]_vars

\* C6: validate_piping_line returns true exactly when the five conditions of
\* the rule hold together, and false for every other string.
C6_ValidateIffRule ==
    pc = "validated" => out[1] = RuleHolds(cand)

---------------------------------------------------------------------------
(* find_coordinates_for_text as a function of its arguments *)

MaxCoordSpans == 2

LowerId == <<"6", "-", "p", "-", "1", "-", "c">>

CoordTargets == {PlainId, <<"Q">>}

\* In the first text a character that upper-cases to two precedes the target.
CoordTexts == {<<"<sz>", " ">> \o PlainId,
               <<"x", " ">> \o LowerId,
               <<"Q">>,
               <<"x", " ">> \o LowerId \o <<"\n">> \o PlainId}

CoordSpans == {[start |-> 2, end |-> 3, bbox |-> Some(BoxA)],
               [start |-> 3, end |-> 10, bbox |-> Some(BoxB)],
               [start |-> 0, end |-> 2, bbox |-> Some(BoxB)],
               [start |-> 2, end |-> 9, bbox |-> None],
               [start |-> 2, end |-> 2, bbox |-> Some(BoxA)],
               [start |-> 9, end |-> 17, bbox |-> Some(BoxA)]}

InitCoord ==
    /\ HandlerIdle
    /\ cand \in CoordTargets
    /\ text \in CoordTexts
    /\ layout_info = <<>>
    /\ out = <<>>
    /\ pc = "spans"
    /\ npieces = 0
    /\ pending = <<>>
    /\ piping_lines = EmptyDict
    /\ pid_identifier = None
    /\ validated_lines_data = EmptyDict
    /\ result = None

\* The span list gets one more span.
AddCoordSpan(sp) ==
    /\ pc = "spans"
    /\ Len(layout_info) < MaxCoordSpans
    /\ layout_info' = Append(layout_info, sp)
    /\ UNCHANGED <<text, npieces, pc, pending, piping_lines, pid_identifier,
                   validated_lines_data, result, cand, out>>
    /\ UNCHANGED handler_vars

\* find_coordinates_for_text(cand, text, layout_info)
FindCoordinates ==
    /\ pc = "spans"
    /\ out' = <<find_coordinates_for_text(cand, text, layout_info)>>
    /\ pc' = "found"
    /\ UNCHANGED <<text, layout_info, npieces, pending, piping_lines,
                   pid_identifier, validated_lines_data, result, cand>>
    /\ UNCHANGED handler_vars

NextCoord == (\E sp \in CoordSpans : AddCoordSpan(sp)) \/ FindCoordinates

SpecCoord == InitCoord /\ [][NextCoord]_vars

\* The offsets of the text at which the target occurs, case aside.
Occurrences(target, t) ==
    {p \in 0..(Len(t) - Len(target)) :
        StrUpper(Slice(t, p, p + Len(target))) = StrUpper(target)}

\* Two non-empty ranges [s, e) and [start, end) share a character.
Intersects(s, e, start, end) == s < end /\ start < e

\* What the claim says find_coordinates_for_text returns.
ClaimedCoordinates(target, t, layout) ==
    IF Occurrences(target, t) = {} THEN None
    ELSE LET start == CHOOSE p \in Occurrences(target, t) :
                          \A q \in Occurrences(target, t) : p <= q
             end   == start + Len(target)
             boxed == {i \in DOMAIN layout :
                          /\ Intersects(layout[i].start, layout[i].end, start, end)
                          /\ layout[i].bbox # None}
         IN  IF boxed = {} THEN None
             ELSE layout[CHOOSE i \in boxed : \A j \in boxed : i <= j].bbox

\* C8: find_coordinates_for_text returns the box of the first span, in list
\* order, that overlaps the first case-insensitive occurrence of the target
\* in the text and carries a box, and absent exactly when there is no
\* occurrence or no such span.  (Stated for span lists without empty spans,
\* where "overlaps" has one reading.)
C8_FirstOverlappingBox ==
    (pc = "found" /\ \A i \in DOMAIN layout_info :
                          layout_info[i].start < layout_info[i].end)
        => out[1] = ClaimedCoordinates(cand, text, layout_info)

---------------------------------------------------------------------------
(* extract_pid_identifier as a function of the text *)

MaxPidPieces == 4

LabelDots == <<"D", "W", "G", ".", " ", "N", "O", ".", " ">>

LabelBare == <<"D", "W", "G", " ", "N", "O">>

LabelLower == <<"d", "w", "g", ".", "n", "o", ".">>

TokenPrefixed == <<"X", "-", "P", "I", "D">>

TokenLeading == <<"P", "I", "D", "-", "1">>

PidPieces == {LabelDots, LabelBare, LabelLower, TokenPrefixed, TokenLeading,
              <<"\n">>}

InitPid ==
    /\ HandlerIdle
    /\ text = <<>>
    /\ npieces = 0
    /\ out = <<>>
    /\ pc = "pid_text"
    /\ cand = None
    /\ layout_info = <<>>
    /\ pending = <<>>
    /\ piping_lines = EmptyDict
    /\ pid_identifier = None
    /\ validated_lines_data = EmptyDict
    /\ result = None

\* The text gets one more piece.
AppendPidPiece(p) ==
    /\ pc = "pid_text"
    /\ npieces < MaxPidPieces
    /\ text' = text \o p
    /\ npieces' = npieces + 1
    /\ UNCHANGED <<layout_info, pc, pending, piping_lines, pid_identifier,
                   validated_lines_data, result, cand, out>>
    /\ UNCHANGED handler_vars

\* extract_pid_identifier(text)
ExtractPid ==
    /\ pc = "pid_text"
    /\ pid_identifier' = extract_pid_identifier(text)
    /\ pc' = "pid_done"
    /\ UNCHANGED <<text, layout_info, npieces, pending, piping_lines,
                   validated_lines_data, result, cand, out>>
    /\ UNCHANGED handler_vars

NextPid == (\E p \in PidPieces : AppendPidPiece(p)) \/ ExtractPid

SpecPid == InitPid /\ [][NextPid]_vars

IsTokenChar(c) == IsAlnum(c) \/ c = "-"

\* t holds word w (case aside) from offset p on.
HoldsWord(t, p, w) ==
    p + Len(w) <= Len(t) /\ StrUpper(Slice(t, p, p + Len(w))) = w

\* From offset a to offset b there is an optional period and then nothing
\* but whitespace.
PeriodAndSpace(t, a, b) ==
    /\ a <= b
    /\ \A i \in (a + 2)..b : IsSpace(t[i])
    /\ a < b => IsSpace(t[a + 1]) \/ t[a + 1] = "."

\* The offsets right after a label: DWG, an optional period, whitespace, NO,
\* an optional period, whitespace.
LabelEnds(t) ==
    LET dwg == {i \in 0..Len(t) : HoldsWord(t, i, <<"D", "W", "G">>)}
        no  == {a \in 0..Len(t) : HoldsWord(t, a, <<"N", "O">>)}
    IN  {j \in 0..Len(t) :
            \E i \in dwg : \E a \in no :
                PeriodAndSpace(t, i + 3, a) /\ PeriodAndSpace(t, a + 2, j)}

\* The token that starts at offset j: the longest run of letters, digits
\* and dashes from there.
TokenAt(t, j) == Slice(t, j, j + RunLen(t, j, "AZ09-", Len(t)))

\* The token holds PID (case aside) at an offset of at least from.
HoldsPid(tok, from) ==
    \E k \in from..(Len(tok) - 3) : HoldsWord(tok, k, <<"P", "I", "D">>)

\* The tokens that follow a label and hold PID at an offset of at least from.
LabelledTokens(t, from) ==
    {TokenAt(t, j) : j \in {e \in LabelEnds(t) : HoldsPid(TokenAt(t, e), from)}}

\* C10 as stated: when a label is followed by a token that holds PID anywhere
\* in it, its very start included, extract_pid_identifier returns that
\* token, and it returns absent only when the text holds no such token.
C10_AsStated ==
    pc = "pid_done" =>
        IF LabelledTokens(text, 0) = {} THEN pid_identifier = None
        ELSE pid_identifier # None /\ pid_identifier[1] \in LabelledTokens(text, 0)

\* C10, amended: the token must hold PID after at least one of its own
\* characters.  When a label is followed by such a token,
\* extract_pid_identifier returns such a token; otherwise it returns absent.
C10_PidAfterFirstCharacter ==
    pc = "pid_done" =>
        IF LabelledTokens(text, 1) = {} THEN pid_identifier = None
        ELSE pid_identifier # None /\ pid_identifier[1] \in LabelledTokens(text, 1)

\* The text holds two labelled tokens, one starting with PID, and the call
\* returned the other.
C10_Witness ==
    /\ pc = "pid_done"
    /\ pid_identifier # None
    /\ LabelledTokens(text, 0) # LabelledTokens(text, 1)

---------------------------------------------------------------------------
(* extract_text_and_layout_from_document on its own.                        *)
(* A dict of the document service is a record whose fields are optional     *)
(* values: None for an absent key.  An index is the decimal string the      *)
(* service's JSON carries.                                                  *)

MaxTokens == 2

MaxPages == 2

DigitSeq == <<"0", "1", "2", "3", "4", "5", "6", "7", "8", "9">>

DigitValue(c) == (CHOOSE i \in 1..10 : DigitSeq[i] = c) - 1

\* int(s) for a string of decimal digits.
RECURSIVE int(_)
int(s) ==
    IF s = <<>> THEN 0
    ELSE 10 * int(SubSeq(s, 1, Len(s) - 1)) + DigitValue(s[Len(s)])

\* d.get(key, default), and d[key] if key in d else default.
Get(field, default) == IF field = None THEN default ELSE field[1]

\* What the evaluation of vertices[2] raises on a list of 1 or 2 vertices.
IndexError == "IndexError"

\* token["layout"]["boundingPoly"].get("vertices", []), where the polygon is.
VerticesOf(layout) ==
    IF layout.boundingPoly = None THEN <<>>
    ELSE Get(layout.boundingPoly[1].vertices, <<>>)

\* The computation of a segment's bbox evaluates vertices[2] whenever the
\* list of vertices is not empty: it raises IndexError on 1 or 2 vertices.
RaisesIndexError(layout) == Len(VerticesOf(layout)) \in {1, 2}

\* The bbox computed for a segment of a token with this layout, where the
\* computation does not raise.
BBoxOf(layout) ==
    LET vertices == VerticesOf(layout)
    IN  IF vertices = <<>> THEN None
        ELSE Some([x |-> Get(vertices[1].x, 0),
                   y |-> Get(vertices[1].y, 0),
                   width |-> Get(vertices[3].x, 0) - Get(vertices[1].x, 0),
                   height |-> Get(vertices[3].y, 0) - Get(vertices[1].y, 0)])

\* The dict appended to layout_info for one segment.
SegmentSpan(segment, layout, t) ==
    LET start_idx == IF segment.startIndex = None THEN 0
                     ELSE int(segment.startIndex[1])
        end_idx   == IF segment.endIndex = None THEN 0
                     ELSE int(segment.endIndex[1])
    IN  [start |-> start_idx,
         end |-> end_idx,
         bbox |-> BBoxOf(layout),
         text |-> IF end_idx <= Len(t) THEN Slice(t, start_idx, end_idx)
                  ELSE <<>>]

\* The segments the loops visit for one token.
TokenSegments(token) ==
    IF token.layout # None /\ token.layout[1].textAnchor # None
    THEN Get(token.layout[1].textAnchor[1].textSegments, <<>>)
    ELSE <<>>

TokenSpans(token, t) ==
    LET segments == TokenSegments(token)
    IN  [i \in 1..Len(segments) |-> SegmentSpan(segments[i], token.layout[1], t)]

RECURSIVE TokensSpans(_, _)
TokensSpans(tokens, t) ==
    IF tokens = <<>> THEN <<>>
    ELSE TokenSpans(Head(tokens), t) \o TokensSpans(Tail(tokens), t)

RECURSIVE PagesSpans(_, _)
PagesSpans(pages, t) ==
    IF pages = <<>> THEN <<>>
    ELSE TokensSpans(Get(Head(pages).tokens, <<>>), t)
         \o PagesSpans(Tail(pages), t)

\* Some segment the loops visit belongs to a token whose bbox raises.
RECURSIVE TokensRaise(_)
TokensRaise(tokens) ==
    IF tokens = <<>> THEN FALSE
    ELSE \/ TokenSegments(Head(tokens)) # <<>>
            /\ RaisesIndexError(Head(tokens).layout[1])
         \/ TokensRaise(Tail(tokens))

RECURSIVE PagesRaise(_)
PagesRaise(pages) ==
    IF pages = <<>> THEN FALSE
    ELSE \/ TokensRaise(Get(Head(pages).tokens, <<>>))
         \/ PagesRaise(Tail(pages))

\* The outcome of the call: the exception it raised, or the pair returned.
extract_text_and_layout_from_document(document_dict) ==
    LET t     == Get(document_dict.text, <<>>)
        pages == Get(document_dict.pages, <<>>)
    IN  IF PagesRaise(pages)
        THEN [exception |-> Some(IndexError), text |-> <<>>, layout_info |-> <<>>]
        ELSE [exception |-> None, text |-> t, layout_info |-> PagesSpans(pages, t)]

\* Inputs: texts, vertices, polygons, segments and tokens of the service.
LayoutTexts == {None, Some(<<"A", "B">>), Some(PlainId)}

Vertex(vx, vy) == [x |-> vx, y |-> vy]

FourVertices == <<Vertex(Some(1), Some(2)), Vertex(Some(4), Some(2)),
                  Vertex(Some(4), Some(6)), Vertex(Some(1), Some(6))>>

\* The service leaves a coordinate of 0 out.
FourVerticesAtOrigin == <<Vertex(None, None), Vertex(Some(4), None),
                          Vertex(Some(4), Some(6)), Vertex(None, Some(6))>>

Polygons == {None,
             Some([vertices |-> None]),
             Some([vertices |-> Some(<<>>)]),
             Some([vertices |-> Some(SubSeq(FourVertices, 1, 1))]),
             Some([vertices |-> Some(SubSeq(FourVertices, 1, 2))]),
             Some([vertices |-> Some(SubSeq(FourVertices, 1, 3))]),
             Some([vertices |-> Some(FourVertices)]),
             Some([vertices |-> Some(FourVerticesAtOrigin)])}

Segment(s, e) == [startIndex |-> s, endIndex |-> e]

Anchors == {None,
            Some([textSegments |-> None]),
            Some([textSegments |-> Some(<<>>)]),
            Some([textSegments |-> Some(<<Segment(None, Some(<<"2">>))>>)]),
            Some([textSegments |-> Some(<<Segment(Some(<<"1">>), Some(<<"1", "2">>)),
                                         Segment(Some(<<"1">>), None)>>)])}

TokenChoices ==
    {[layout |-> None]}
    \cup {[layout |-> Some([textAnchor |-> a, boundingPoly |-> b])] :
             a \in Anchors, b \in Polygons}

PageChoices == {[tokens |-> None], [tokens |-> Some(<<>>)]}

InitLayout ==
    /\ HandlerIdle
    /\ text = <<>>
    /\ layout_info = <<>>
    /\ npieces = 0
    /\ pc = "document"
    /\ pending = <<>>
    /\ piping_lines = EmptyDict
    /\ pid_identifier = None
    /\ validated_lines_data = EmptyDict
    /\ result = None
    /\ cand \in {[text |-> t, pages |-> None] : t \in LayoutTexts}
    /\ out = None

\* The document has one more page.
AddPage(page) ==
    /\ pc = "document"
    /\ Len(Get(cand.pages, <<>>)) < MaxPages
    /\ cand' = [cand EXCEPT !.pages = Some(Append(Get(cand.pages, <<>>), page))]
    /\ UNCHANGED <<text, layout_info, npieces, pc, pending, piping_lines,
                   pid_identifier, validated_lines_data, result, out>>
    /\ UNCHANGED handler_vars

\* The last page of the document has one more token.
AddToken(token) ==
    /\ pc = "document"
    /\ npieces < MaxTokens
    /\ cand.pages # None
    /\ LET pages == cand.pages[1]
           n     == Len(pages)
       IN  /\ n > 0
           /\ pages[n].tokens # None
           /\ cand' = [cand EXCEPT !.pages =
                         Some([pages EXCEPT ![n].tokens =
                                  Some(Append(pages[n].tokens[1], token))])]
    /\ npieces' = npieces + 1
    /\ UNCHANGED <<text, layout_info, pc, pending, piping_lines,
                   pid_identifier, validated_lines_data, result, out>>
    /\ UNCHANGED handler_vars

\* text, layout_info = extract_text_and_layout_from_document(document_dict)
FlattenDocument ==
    /\ pc = "document"
    /\ out' = extract_text_and_layout_from_document(cand)
    /\ pc' = "done"
    /\ UNCHANGED <<text, layout_info, npieces, pending, piping_lines,
                   pid_identifier, validated_lines_data, result, cand>>
    /\ UNCHANGED handler_vars

NextLayout ==
    \/ \E page \in PageChoices : AddPage(page)
    \/ \E token \in TokenChoices : AddToken(token)
    \/ FlattenDocument

SpecLayout == InitLayout /\ [][NextLayout]_vars

\* The text segments present in a document, in encounter order.
RECURSIVE SegmentsOfTokens(_)
SegmentsOfTokens(tokens) ==
    IF tokens = <<>> THEN <<>>
    ELSE LET lay == Head(tokens).layout
             seg == IF lay = None THEN <<>>
                    ELSE IF lay[1].textAnchor = None THEN <<>>
                    ELSE IF lay[1].textAnchor[1].textSegments = None THEN <<>>
                    ELSE lay[1].textAnchor[1].textSegments[1]
         IN  seg \o SegmentsOfTokens(Tail(tokens))

RECURSIVE SegmentsPresent(_)
SegmentsPresent(pages) ==
    IF pages = <<>> THEN <<>>
    ELSE (IF Head(pages).tokens = None THEN <<>>
          ELSE SegmentsOfTokens(Head(pages).tokens[1]))
         \o SegmentsPresent(Tail(pages))

IndexValue(field) == IF field = None THEN 0 ELSE int(field[1])

\* What the claim says of a returned value for a document.
FlattenedAsClaimed(document_dict, returned) ==
    LET t        == IF document_dict.text = None THEN <<>> ELSE document_dict.text[1]
        segments == IF document_dict.pages = None THEN <<>>
                    ELSE SegmentsPresent(document_dict.pages[1])
    IN  /\ returned.exception = None
        /\ returned.text = t
        /\ Len(returned.layout_info) = Len(segments)
        /\ \A i \in 1..Len(segments) :
              /\ returned.layout_info[i].start = IndexValue(segments[i].startIndex)
              /\ returned.layout_info[i].end = IndexValue(segments[i].endIndex)
              /\ IndexValue(segments[i].endIndex) > Len(t)
                    => returned.layout_info[i].text = <<>>

\* Some token of the document has segments and a polygon of 1 or 2 vertices.
HasShortPolygon(document_dict) ==
    \E i \in DOMAIN Get(document_dict.pages, <<>>) :
        LET tokens == Get(document_dict.pages[1][i].tokens, <<>>)
        IN  \E j \in DOMAIN tokens :
               /\ tokens[j].layout # None
               /\ tokens[j].layout[1].textAnchor # None
               /\ Get(tokens[j].layout[1].textAnchor[1].textSegments, <<>>) # <<>>
               /\ tokens[j].layout[1].boundingPoly # None
               /\ Len(Get(tokens[j].layout[1].boundingPoly[1].vertices, <<>>))
                     \in {1, 2}

\* C11: flattening completes without raising for every well-typed document
\* dict (sections absent, polygons of 1 or 2 vertices, an end index beyond
\* the text): absent sections count as empty, a span out of range has empty
\* text, and there is one span per text segment present, in encounter order.
C11_FlattenNeverRaises ==
    pc = "done" => FlattenedAsClaimed(cand, out)

\* The rest of C11, polygons of 1 or 2 vertices aside.
C11_FlattenWithoutShortPolygons ==
    pc = "done" /\ ~HasShortPolygon(cand) => FlattenedAsClaimed(cand, out)

---------------------------------------------------------------------------
(* The overlap test of find_coordinates_for_text *)

\* The match range the code tests the spans against.
start_pos == Find(StrUpper(text), StrUpper(cand))

end_pos == start_pos + Len(cand)

\* Neither of [s, e) and [start, end) is strictly before the other.
NeitherBefore(s, e, start, end) == s < end /\ start < e

\* C13: the overlap test of coordinate resolution takes a span [s, e) to
\* overlap the non-empty match range [start, end) exactly when s < end and
\* start < e, for every span, empty spans (s = e) and spans at the boundaries
\* of the match range included.
C13_OverlapIffNeitherBefore ==
    pc = "found" /\ start_pos # -1
        => \A i \in DOMAIN layout_info :
              SpanOverlaps(layout_info[i], start_pos, end_pos)
                 <=> NeitherBefore(layout_info[i].start, layout_info[i].end,
                                   start_pos, end_pos)

\* C13 for the spans that hold a character: there the test is as claimed.
C13_OverlapOfNonEmptySpans ==
    pc = "found" /\ start_pos # -1
        => \A i \in DOMAIN layout_info :
              layout_info[i].start < layout_info[i].end
                 => (SpanOverlaps(layout_info[i], start_pos, end_pos)
                       <=> NeitherBefore(layout_info[i].start, layout_info[i].end,
                                         start_pos, end_pos))

---------------------------------------------------------------------------
(* C14 *)

\* The offset in t of the first character of line n (1-based).
RECURSIVE LineOffset(_, _)
LineOffset(lines, n) ==
    IF n = 1 THEN 0 ELSE LineOffset(lines, n - 1) + Len(lines[n - 1]) + 1

\* The offsets at which m occurs, case-insensitively, inside line n of t.
OccurrencesOnLine(m, t, n) ==
    LET lines == Lines(t)
        first == LineOffset(lines, n)
    IN  {p \in Occurrences(m, t) :
            first <= p /\ p + Len(m) <= first + Len(lines[n])}

\* Some span with this box overlaps an occurrence, on line n, of a match of
\* line n that stands for the identifier id.
BoxFromLine(box, id, n) ==
    LET ms == AllMatches(text)
    IN  \E k \in DOMAIN ms :
           /\ ms[k].line_num = n
           /\ KeyOf(ms[k]) = id
           /\ \E p \in OccurrencesOnLine(ms[k].match, text, n) :
                 \E i \in DOMAIN layout_info :
                    /\ layout_info[i].bbox = box
                    /\ \/ SpanOverlaps(layout_info[i], p, p + Len(ms[k].match))
                       \/ NeitherBefore(layout_info[i].start, layout_info[i].end,
                                        p, p + Len(ms[k].match))

\* C14: the coordinates of every record that has coordinates are the box of
\* a span that overlaps an occurrence of the record's matched text on the
\* record's own line (line text_line_number), never an occurrence of the same
\* characters on an earlier line.
C14_CoordinatesFromOwnLine ==
    pc = "done" =>
        \A i \in DOMAIN Records :
            Records[i].coordinates # None
               => BoxFromLine(Records[i].coordinates,
                              Records[i].piping_line_number,
                              Records[i].text_line_number)

---------------------------------------------------------------------------
(* The two entry points as a whole: the HTTP handler extract_piping_lines   *)
(* of main.py and process_pdf_to_piping_lines.  An outcome (the value of    *)
(* out when pc = "done") is a record: the type of what was returned or      *)
(* raised, its status code (0 where it has none) and its detail, a message  *)
(* given by its parts.                                                      *)

TempPath == "/tmp/tmpfile.pdf"

PdfPath == "input.pdf"

OutputPath == "input_piping_lines.json"

\* What os.getenv returns for a setting: None, the empty string, a value.
SettingChoices == {None, Some(<<>>), Some(<<"i", "d">>)}

\* The documents the external service returns.
ServiceDocuments ==
    {[text |-> Some(PlainId), pages |-> None],
     [text |-> Some(ThreeComp), pages |-> Some(<<[tokens |-> None]>>)],
     [text |-> Some(PlainId),
      pages |-> Some(<<[tokens |-> Some(<<
          [layout |-> Some([textAnchor |-> Some([textSegments |->
                               Some(<<Segment(None, Some(<<"7">>))>>)]),
                            boundingPoly |-> Some([vertices |->
                               Some(FourVertices)])])]>>)]>>)],
     [text |-> Some(PlainId),
      pages |-> Some(<<[tokens |-> Some(<<
          [layout |-> Some([textAnchor |-> Some([textSegments |->
                               Some(<<Segment(None, Some(<<"7">>))>>)]),
                            boundingPoly |-> Some([vertices |->
                               Some(SubSeq(FourVertices, 1, 2))])])]>>)]>>)]}

Outcome(type, status_code, detail) ==
    [type |-> type, status_code |-> status_code, detail |-> detail]

ConfigurationDetail ==
    "Server configuration error: Missing required environment variables for Google Document AI"

\* The exception of main.py, lines 149-155.
ConfigurationHTTPException == Outcome("HTTPException", 500, <<ConfigurationDetail>>)

\* The exception of process_pdf_to_piping_lines, line 398.
ConfigurationValueError ==
    Outcome("ValueError", 0, <<"Missing required environment variables">>)

\* The names validate_environment_variables finds missing ("not var_value").
missing_vars ==
    {v \in {"GOOGLE_CLOUD_PROJECT_ID", "DOCUMENT_AI_PROCESSOR_ID"} :
        LET var_value == IF v = "GOOGLE_CLOUD_PROJECT_ID" THEN project_id
                         ELSE processor_id
        IN  var_value = None \/ var_value[1] = <<>>}

validate_environment_variables == missing_vars = {}

\* str(e): the message of a built-in exception; of an HTTPException built
\* with keyword arguments, "" or "<status_code>: <detail>", as the framework
\* installed defines it.
StrChoices(e) ==
    IF e.type = "HTTPException"
    THEN {<<>>, <<"500", ": ">> \o e.detail}
    ELSE {e.detail}

\* An exception leaves the body: the handler's except clause takes it, the
\* command-line pipeline lets it reach its caller.
Raise(e) ==
    IF entry = "http"
    THEN exception' = Some(e) /\ pc' = "except" /\ out' = out
    ELSE out' = Some(e) /\ pc' = "done" /\ exception' = exception

InitHandler ==
    /\ entry \in {"http", "cli"}
    /\ project_id \in SettingChoices
    /\ processor_id \in SettingChoices
    /\ temp_file = None
    /\ temp_file_path = None
    /\ files \in (IF entry = "cli" THEN {{}, {PdfPath}} ELSE {{}})
    /\ calls = <<>>
    /\ exception = None
    /\ pc = (IF entry = "http" THEN "temp_file" ELSE "exists")
    /\ text = <<>>
    /\ layout_info = <<>>
    /\ npieces = 0
    /\ pending = <<>>
    /\ piping_lines = EmptyDict
    /\ pid_identifier = None
    /\ validated_lines_data = EmptyDict
    /\ result = None
    /\ cand = None
    /\ out = None

\* with tempfile.NamedTemporaryFile(delete=False, suffix=".pdf") as temp_file
CreateTempFile ==
    /\ pc = "temp_file"
    /\ temp_file' = Some(TempPath)
    /\ files' = files \cup {TempPath}
    /\ calls' = Append(calls, "create")
    /\ pc' = "upload"
    /\ UNCHANGED <<text, layout_info, npieces, pending, piping_lines,
                   pid_identifier, validated_lines_data, result, cand, out,
                   entry, project_id, processor_id, temp_file_path, exception>>

\* The body of the with statement: the upload is read and written, and
\* temp_file_path is bound; or the read (or the write) raises.
ReadUpload ==
    /\ pc = "upload"
    /\ \/ /\ temp_file_path' = Some(TempPath)
          /\ pc' = "settings"
          /\ UNCHANGED <<exception, out>>
       \/ /\ Raise(Outcome("OSError", 0, <<"read failed">>))
          /\ UNCHANGED temp_file_path
    /\ UNCHANGED <<text, layout_info, npieces, pending, piping_lines,
                   pid_identifier, validated_lines_data, result, cand,
                   entry, project_id, processor_id, temp_file, files, calls>>

\* if not os.path.exists(pdf_path): raise FileNotFoundError
CheckPdfExists ==
    /\ pc = "exists"
    /\ IF PdfPath \in files
       THEN pc' = "settings" /\ UNCHANGED <<out, exception>>
       ELSE Raise(Outcome("FileNotFoundError", 0, <<"PDF file not found: ", PdfPath>>))
    /\ UNCHANGED <<text, layout_info, npieces, pending, piping_lines,
                   pid_identifier, validated_lines_data, result, cand,
                   entry, project_id, processor_id, temp_file, temp_file_path,
                   files, calls>>

\* if not extractor.validate_environment_variables(): raise ...
CheckSettings ==
    /\ pc = "settings"
    /\ IF validate_environment_variables
       THEN pc' = "document_ai" /\ UNCHANGED <<out, exception>>
       ELSE Raise(IF entry = "http" THEN ConfigurationHTTPException
                  ELSE ConfigurationValueError)
    /\ UNCHANGED <<text, layout_info, npieces, pending, piping_lines,
                   pid_identifier, validated_lines_data, result, cand,
                   entry, project_id, processor_id, temp_file, temp_file_path,
                   files, calls>>

\* document_dict = extractor.process_pdf_with_document_ai(path): the service
\* answers with a document, or the call raises.
process_pdf_with_document_ai ==
    /\ pc = "document_ai"
    /\ calls' = Append(calls, "document_ai")
    /\ \/ /\ cand' \in ServiceDocuments
          /\ pc' = "flatten"
          /\ UNCHANGED <<out, exception>>
       \/ /\ Raise(Outcome("ServiceError", 0, <<"service unavailable">>))
          /\ UNCHANGED cand
    /\ UNCHANGED <<text, layout_info, npieces, pending, piping_lines,
                   pid_identifier, validated_lines_data, result,
                   entry, project_id, processor_id, temp_file, temp_file_path,
                   files>>

\* text, layout_info = extractor.extract_text_and_layout_from_document(...)
FlattenStep ==
    /\ pc = "flatten"
    /\ LET returned == extract_text_and_layout_from_document(cand)
       IN  IF returned.exception = None
           THEN /\ text' = returned.text
                /\ layout_info' = returned.layout_info
                /\ pc' = "extraction"
                /\ UNCHANGED <<out, exception>>
           ELSE /\ Raise(Outcome(returned.exception[1], 0,
                                 <<"list index out of range">>))
                /\ UNCHANGED <<text, layout_info>>
    /\ UNCHANGED <<npieces, pending, piping_lines, pid_identifier,
                   validated_lines_data, result, cand,
                   entry, project_id, processor_id, temp_file, temp_file_path,
                   files, calls>>

\* The extraction steps: extract_pid_identifier, extract_piping_line_numbers
\* and the validation filter.
ExtractionSteps ==
    /\ pc = "extraction"
    /\ calls' = Append(calls, "extract")
    /\ pid_identifier' = extract_pid_identifier(text)
    /\ piping_lines' = extract_piping_line_numbers(text, layout_info)
    /\ validated_lines_data' =
          ValidatedLines(extract_piping_line_numbers(text, layout_info))
    /\ pc' = "result"
    /\ UNCHANGED <<text, layout_info, npieces, pending, result, cand, out,
                   entry, project_id, processor_id, temp_file, temp_file_path,
                   files, exception>>

\* return JSONResponse(content=result)
ReturnResponse ==
    /\ pc = "result"
    /\ entry = "http"
    /\ result' = Some(BuildResult(validated_lines_data, pid_identifier,
                                  "fastapi_server/main.py"))
    /\ out' = Some(Outcome("JSONResponse", 200, <<>>))
    /\ pc' = "finally"
    /\ UNCHANGED <<text, layout_info, npieces, pending, piping_lines,
                   pid_identifier, validated_lines_data, cand,
                   entry, project_id, processor_id, temp_file, temp_file_path,
                   files, calls, exception>>

\* self.save_results_as_json(...); return output_json_path
SaveAndReturn ==
    /\ pc = "result"
    /\ entry = "cli"
    /\ result' = Some(BuildResult(validated_lines_data, pid_identifier,
                                  "process_pdf_to_piping_lines.py"))
    /\ files' = files \cup {OutputPath}
    /\ out' = Some(Outcome("str", 0, <<OutputPath>>))
    /\ pc' = "done"
    /\ UNCHANGED <<text, layout_info, npieces, pending, piping_lines,
                   pid_identifier, validated_lines_data, cand,
                   entry, project_id, processor_id, temp_file, temp_file_path,
                   calls, exception>>

\* except Exception as e: raise HTTPException(status_code=500,
\*     detail=f"Error processing PDF file: {str(e)}")
ExceptClause ==
    /\ pc = "except"
    /\ \E str \in StrChoices(exception[1]) :
          out' = Some(Outcome("HTTPException", 500,
                              <<"Error processing PDF file: ">> \o str))
    /\ pc' = "finally"
    /\ UNCHANGED <<text, layout_info, npieces, pending, piping_lines,
                   pid_identifier, validated_lines_data, result, cand,
                   entry, project_id, processor_id, temp_file, temp_file_path,
                   files, calls, exception>>

\* finally: if temp_file and os.path.exists(temp_file_path): try os.unlink.
\* Reading the unbound temp_file_path raises UnboundLocalError, which
\* replaces the exception in flight; an error of os.unlink is caught.
FinallyClause ==
    /\ pc = "finally"
    /\ pc' = "done"
    /\ IF temp_file = None
       THEN UNCHANGED <<out, files, calls>>
       ELSE IF temp_file_path = None
       THEN /\ out' = Some(Outcome("UnboundLocalError", 0,
                    <<"cannot access local variable 'temp_file_path'">>))
            /\ UNCHANGED <<files, calls>>
       ELSE IF temp_file_path[1] \notin files
       THEN UNCHANGED <<out, files, calls>>
       ELSE \/ /\ files' = files \ {temp_file_path[1]}
               /\ calls' = Append(calls, "unlink")
               /\ UNCHANGED out
            \/ /\ calls' = Append(calls, "unlink failed")
               /\ UNCHANGED <<out, files>>
    /\ UNCHANGED <<text, layout_info, npieces, pending, piping_lines,
                   pid_identifier, validated_lines_data, result, cand,
                   entry, project_id, processor_id, temp_file, temp_file_path,
                   exception>>

NextHandler ==
    \/ CreateTempFile
    \/ ReadUpload
    \/ CheckPdfExists
    \/ CheckSettings
    \/ process_pdf_with_document_ai
    \/ FlattenStep
    \/ ExtractionSteps
    \/ ReturnResponse
    \/ SaveAndReturn
    \/ ExceptClause
    \/ FinallyClause

SpecHandler == InitHandler /\ [][NextHandler]_vars

---------------------------------------------------------------------------
(* C12 and C15 *)

Called(step) == \E i \in DOMAIN calls : calls[i] = step

SettingMissing ==
    \/ project_id = None \/ project_id = Some(<<>>)
    \/ processor_id = None \/ processor_id = Some(<<>>)

\* The run got as far as the check of the settings.
ReachedSettingsCheck ==
    IF entry = "http" THEN temp_file_path # None ELSE PdfPath \in files

\* The outcome the except clause of the handler gives an unexpected error.
IsGenericFailure(o) ==
    /\ o.type = "HTTPException"
    /\ o.detail # <<>>
    /\ o.detail[1] = "Error processing PDF file: "

\* The outcome names the missing configuration.
IsConfigurationError(o) ==
    \/ o.type = "ValueError"
       /\ o.detail = <<"Missing required environment variables">>
    \/ o.type = "HTTPException"
       /\ \E i \in DOMAIN o.detail : o.detail[i] = ConfigurationDetail

\* C12: in the HTTP handler and in the command-line pipeline alike, a missing
\* required setting (project id or processor id) makes the request fail
\* before the external document service is called and before any extraction
\* step runs, and the failure reaches the caller as a configuration error
\* distinct from the generic processing-failure outcome of unexpected errors.
C12_ConfigurationErrorReachesCaller ==
    pc = "done" /\ SettingMissing /\ ReachedSettingsCheck
        => /\ ~Called("document_ai")
           /\ ~Called("extract")
           /\ result = None
           /\ IsConfigurationError(out[1])
           /\ ~IsGenericFailure(out[1])

\* The part of C12 about the order of the steps, and C12 for the
\* command-line pipeline.
C12_FailsBeforeServiceCall ==
    pc = "done" /\ SettingMissing
        => /\ ~Called("document_ai")
           /\ ~Called("extract")
           /\ result = None
           /\ out[1].type \notin {"JSONResponse", "str"}
           /\ entry = "cli" /\ ReachedSettingsCheck
                 => out[1] = ConfigurationValueError

\* C15: on every path of the HTTP handler that creates the temporary file
\* (success, upload-read failure, configuration error, external-service
\* failure, processing failure) the file is deleted by the time the handler
\* returns or raises, and the outcome of a failing path is the HTTP 500
\* error, not an error raised by the cleanup.  (Stated for the runs in which
\* os.unlink itself does not fail.)
C15_TempFileDeletedOnEveryPath ==
    pc = "done" /\ entry = "http" /\ Called("create") /\ ~Called("unlink failed")
        => /\ TempPath \notin files
           /\ out[1].type # "JSONResponse"
                 => out[1].type = "HTTPException" /\ out[1].status_code = 500

\* C15 for the paths on which the upload was read.
C15_TempFileDeletedAfterUpload ==
    pc = "done" /\ entry = "http" /\ temp_file_path # None
       /\ ~Called("unlink failed")
        => /\ TempPath \notin files
           /\ out[1].type # "JSONResponse"
                 => out[1].type = "HTTPException" /\ out[1].status_code = 500

====
